---- MODULE Spec2Model ----
(***************************************************************************)
(* A model of OllamaClient (ollama_utils.py): the availability check       *)
(* (_init_lm), the chat pipeline (get_response) and the response cleaner   *)
(* (_remove_think_tags), run against an abstract Ollama backend.           *)
(*                                                                         *)
(* Python str values that the code inspects character by character (the    *)
(* LM response) are sequences of one-character strings; values that the    *)
(* code only forwards or compares (model names, messages, options, hosts)  *)
(* are strings.                                                            *)
(***************************************************************************)
EXTENDS Integers, Sequences, FiniteSets, TLC

VARIABLES url, client, catalog, pc, op, lm_name, message, options,
          model_names, result, error, trace, disturbed, known, fetched

vars == <<url, client, catalog, pc, op, lm_name, message, options,
          model_names, result, error, trace, disturbed, known, fetched>>

(***************************************************************************)
(* Bounds of the model.                                                    *)
(***************************************************************************)
\* Longest text given to _remove_think_tags directly, counted in pieces.
MaxPieces == 3
\* Longest content of a chat response, counted in pieces.
MaxChatPieces == 2
\* Longest text with complete spans given to _remove_think_tags, counted in
\* segments.
MaxSegments == 5

(***************************************************************************)
(* Module-level constants of ollama_utils.py.                              *)
(***************************************************************************)
DefaultLmName == "qwen3:0.6b"
DefaultUrl == "http://localhost:11434"
DefaultMessage == "Why is the sky blue?"

\* The host the module-level functions ollama.list / ollama.pull talk to.
DefaultHost == DefaultUrl
OtherHost == "http://other:11434"
Hosts == {DefaultHost, OtherHost}

Models == {DefaultLmName, "gemma2:2b"}
Messages == {DefaultMessage, ""}
\* options=None, or some dict that is forwarded as it is.
NoOptions == "None"
Options == {NoOptions, "{temperature: 0}"}

\* Exceptions the backend calls can raise.
BackendErrors == {"ConnectionError", "ResponseError"}
\* The two ValueErrors of the module, told apart by their message.
ValueErrorResponse == "ValueError: Problem returning response"
ValueErrorCleaning == "ValueError: Problem cleaning response"
NoError == "no error"

\* Terminal status of ollama.pull when it returns instead of raising.
PullStatuses == {"success", "error"}

Callers == {1, 2}
\* The caller that uses the instance in the sequential specifications.
SeqCallers == {1}

(***************************************************************************)
(* Texts.                                                                  *)
(***************************************************************************)
\* Python None where a str is expected: a tuple that is not a text.
None == <<"None">>

OpenTag == <<"<", "t", "h", "i", "n", "k", ">">>
CloseTag == <<"<", "/", "t", "h", "i", "n", "k", ">">>
Whitespace == {" ", "\n", "\t"}

\* The fragments the modelled texts are built from: whole markers, the two
\* halves of an open marker, a letter, a blank and a line break.
Pieces == {OpenTag, CloseTag, <<"<", "t", "h">>, <<"i", "n", "k", ">">>,
           <<"a">>, <<" ">>, <<"\n">>}

RECURSIVE TextsUpTo(_)
TextsUpTo(n) ==
    IF n = 0 THEN {<<>>}
    ELSE LET T == TextsUpTo(n - 1) IN T \cup {t \o p : t \in T, p \in Pieces}

Texts == TextsUpTo(MaxPieces)
ChatContents == TextsUpTo(MaxChatPieces)

\* The segments of the texts with complete spans: the pieces (but one kind
\* of whitespace) and a complete span around the letter b.
Span == OpenTag \o <<"b">> \o CloseTag
Segments == {OpenTag, CloseTag, <<"<", "t", "h">>, <<"i", "n", "k", ">">>,
             <<"a">>, <<" ">>, Span}

RECURSIVE SpanTextsUpTo(_)
SpanTextsUpTo(n) ==
    IF n = 0 THEN {<<>>}
    ELSE LET T == SpanTextsUpTo(n - 1) IN T \cup {t \o p : t \in T, p \in Segments}

SpanTexts == SpanTextsUpTo(MaxSegments)

\* tok occurs in s at index i.
TokenAt(s, i, tok) ==
    /\ i + Len(tok) - 1 <= Len(s)
    /\ \A k \in 1..Len(tok) : s[i + k - 1] = tok[k]

\* tok in s (Python's substring test).
Contains(s, tok) == \E i \in 1..Len(s) : TokenAt(s, i, tok)

\* First index >= i of s that holds no whitespace (Len(s) + 1 if none): \s*
RECURSIVE SkipWhitespace(_, _)
SkipWhitespace(s, i) ==
    IF i <= Len(s) /\ s[i] \in Whitespace THEN SkipWhitespace(s, i + 1) ELSE i

\* str.strip()
RECURSIVE RStrip(_)
RStrip(s) ==
    IF Len(s) > 0 /\ s[Len(s)] \in Whitespace
    THEN RStrip(SubSeq(s, 1, Len(s) - 1)) ELSE s

\* Fault: only the leading whitespace is trimmed (lstrip for strip).
StripLeft(s) == SubSeq(s, SkipWhitespace(s, 1), Len(s))

Strip(s) == RStrip(SubSeq(s, SkipWhitespace(s, 1), Len(s)))

\* Fault: the pattern lacks its \s*: whitespace after a span is kept.
ThinkTagPatternMatchAtNoTrailing(s, i) ==
    IF ~TokenAt(s, i, OpenTag) THEN 0
    ELSE LET closes == {j \in (i + Len(OpenTag))..Len(s) : TokenAt(s, j, CloseTag)}
         IN IF closes = {} THEN 0
            ELSE LET j == CHOOSE m \in closes : \A n \in closes : m <= n
                 IN j + Len(CloseTag)

\* Fault: greedy matching (r'<think>.*</think>\s*'): the match runs to the
\* last close marker.
ThinkTagPatternMatchAtGreedy(s, i) ==
    IF ~TokenAt(s, i, OpenTag) THEN 0
    ELSE LET closes == {j \in (i + Len(OpenTag))..Len(s) : TokenAt(s, j, CloseTag)}
         IN IF closes = {} THEN 0
            ELSE LET j == CHOOSE m \in closes : \A n \in closes : m >= n
                 IN SkipWhitespace(s, j + Len(CloseTag))

\* One match attempt of r'<think>.*?</think>\s*' (DOTALL) at index i: the
\* index after the match, or 0 when the pattern does not match at i.
ThinkTagPatternMatchAt(s, i) ==
    IF ~TokenAt(s, i, OpenTag) THEN 0
    ELSE LET closes == {j \in (i + Len(OpenTag))..Len(s) : TokenAt(s, j, CloseTag)}
         IN IF closes = {} THEN 0
            ELSE LET j == CHOOSE m \in closes : \A n \in closes : m <= n
                 IN SkipWhitespace(s, j + Len(CloseTag))

\* think_tag_pattern.sub('', text): one left-to-right scan that drops every
\* leftmost non-overlapping match.
RECURSIVE ThinkTagPatternSub(_, _)
ThinkTagPatternSub(s, i) ==
    IF i > Len(s) THEN <<>>
    ELSE LET e == ThinkTagPatternMatchAt(s, i)
         IN IF e # 0 THEN ThinkTagPatternSub(s, e)
            ELSE <<s[i]>> \o ThinkTagPatternSub(s, i + 1)

\* re.sub(r'</?think>', '', text): one left-to-right scan.
RECURSIVE LoneTagSub(_, _)
LoneTagSub(s, i) ==
    IF i > Len(s) THEN <<>>
    ELSE IF TokenAt(s, i, OpenTag) THEN LoneTagSub(s, i + Len(OpenTag))
    ELSE IF TokenAt(s, i, CloseTag) THEN LoneTagSub(s, i + Len(CloseTag))
    ELSE <<s[i]>> \o LoneTagSub(s, i + 1)

\* `if not think_tag_pattern`: a compiled pattern object is always truthy.
ThinkTagPatternTruthy == TRUE

\* Fault: the second substitution is left out and lone markers stay.
RemoveThinkTagsValueSpansOnly(text) == Strip(ThinkTagPatternSub(text, 1))

\* _remove_think_tags for a str: the text it returns.
RemoveThinkTagsValue(text) ==
    IF ~ThinkTagPatternTruthy
    THEN Strip(LoneTagSub(text, 1))
    ELSE LET cleaned_text == Strip(ThinkTagPatternSub(text, 1))
         IN Strip(LoneTagSub(cleaned_text, 1))

\* Fault: a None text is cleaned like a str instead of being rejected.
RemoveThinkTagsNeverRaises(text) == FALSE

\* Fault: the test is `if not text`, which rejects the empty string too.
RemoveThinkTagsRaisesOnEmpty(text) == text = None \/ text = <<>>

\* _remove_think_tags raises ValueError exactly for None.
RemoveThinkTagsRaises(text) == text = None

(***************************************************************************)
(* Backend requests, as the code builds them.                              *)
(***************************************************************************)
\* ollama.list() in _list_pulled_models
ListRequest == [ev |-> "call", op |-> "list", host |-> DefaultHost]

\* Fault: _pull_lm called without its argument pulls the default model.
PullRequestDefault(name) ==
    [ev |-> "call", op |-> "pull", host |-> DefaultHost, model |-> DefaultLmName]

\* ollama.pull(lm_name) in _pull_lm
PullRequest(name) ==
    [ev |-> "call", op |-> "pull", host |-> DefaultHost, model |-> name]

\* Fault: the options are not forwarded to the chat request.
ChatRequestNoOptions(host, name, msg, opts) ==
    [ev |-> "call", op |-> "chat", host |-> host, model |-> name,
     messages |-> <<[role |-> "user", content |-> msg]>>, options |-> NoOptions]

\* self.client.chat(model=lm_name, messages=[messages], options=options)
ChatRequest(host, name, msg, opts) ==
    [ev |-> "call", op |-> "chat", host |-> host, model |-> name,
     messages |-> <<[role |-> "user", content |-> msg]>>, options |-> opts]

\* Fault: the result of the check is cached: a model that an earlier call on
\* the instance found or pulled is taken to be still there.
NeedsPullCached(name, names) == name \notin names /\ name \notin known

\* Fault: the membership test is dropped and every model is pulled.
NeedsPullAlways(name, names) == TRUE

\* Fault: the membership test is inverted for absent models: nothing is pulled.
NeedsPullNever(name, names) == FALSE

\* `if lm_name not in model_names` in _init_lm
NeedsPull(name, names) == name \notin names

\* Fault: the handler raises a new exception instead of the caught one.
RaiseWrapped(e) == "Exception"

\* `except Exception as e: ...; raise` re-raises the caught exception.
Reraise(e) == e

\* The events of one call that satisfy a test, in order.
CallsOf(c, o) ==
    SelectSeq(trace[c], LAMBDA e : e.ev = "call" /\ e.op = o)
ReturnsOf(c, o) ==
    SelectSeq(trace[c], LAMBDA e : e.ev = "return" /\ e.op = o)
RaisesOf(c, o) ==
    SelectSeq(trace[c], LAMBDA e : e.ev = "raise" /\ e.op = o)

InProgress(c) == pc[c] \in {"listing", "pulling", "chatting"}
Finished(c) == pc[c] \in {"returned", "raised"}

(***************************************************************************)
(* The state after OllamaClient(url=u) has been constructed.               *)
(***************************************************************************)
Init ==
    /\ url \in Hosts
    /\ client = url
    /\ catalog \in SUBSET Models
    /\ pc = [c \in Callers |-> "idle"]
    /\ op = [c \in Callers |-> "none"]
    /\ lm_name = [c \in Callers |-> DefaultLmName]
    /\ message = [c \in Callers |-> DefaultMessage]
    /\ options = [c \in Callers |-> NoOptions]
    /\ model_names = [c \in Callers |-> {}]
    /\ result = [c \in Callers |-> None]
    /\ error = [c \in Callers |-> NoError]
    /\ trace = [c \in Callers |-> <<>>]
    /\ disturbed = [c \in Callers |-> FALSE]
    /\ known = {}
    /\ fetched = {}

(***************************************************************************)
(* Calls.  A call runs up to its first blocking backend request; each      *)
(* completion of a backend request runs the code up to the next one.       *)
(***************************************************************************)
\* Entering _init_lm, directly or as the first step of get_response:
\* _list_pulled_models issues ollama.list().
Enter(c, o, name, msg, opts) ==
    /\ ~InProgress(c)
    /\ pc' = [pc EXCEPT ![c] = "listing"]
    /\ op' = [op EXCEPT ![c] = o]
    /\ lm_name' = [lm_name EXCEPT ![c] = name]
    /\ message' = [message EXCEPT ![c] = msg]
    /\ options' = [options EXCEPT ![c] = opts]
    /\ model_names' = [model_names EXCEPT ![c] = {}]
    /\ result' = [result EXCEPT ![c] = None]
    /\ error' = [error EXCEPT ![c] = NoError]
    /\ trace' = [trace EXCEPT ![c] = <<ListRequest>>]
    /\ disturbed' = [disturbed EXCEPT ![c] = FALSE]
    /\ UNCHANGED <<url, client, catalog>>

\* client._init_lm(lm_name=name)
InitLmCall(c, name) == Enter(c, "_init_lm", name, DefaultMessage, NoOptions)

\* client.get_response(lm_name=name, message=msg, options=opts)
GetResponseCall(c, name, msg, opts) == Enter(c, "get_response", name, msg, opts)

\* The call of c ends by raising e.
Raise(c, e, events) ==
    /\ pc' = [pc EXCEPT ![c] = "raised"]
    /\ error' = [error EXCEPT ![c] = e]
    /\ trace' = [trace EXCEPT ![c] = trace[c] \o events]
    /\ UNCHANGED <<result, model_names>>

\* Fault: after the listing or the pull _init_lm checks again (a retry loop).
AfterInitLmRetry(c, events) ==
    /\ pc' = [pc EXCEPT ![c] = "listing"]
    /\ trace' = [trace EXCEPT ![c] = <<ListRequest>>]
    /\ UNCHANGED <<result, error>>

\* _init_lm has returned: a direct call is over, get_response goes on to
\* send the chat request.
AfterInitLm(c, events) ==
    IF op[c] = "_init_lm"
    THEN /\ pc' = [pc EXCEPT ![c] = "returned"]
         /\ trace' = [trace EXCEPT ![c] = trace[c] \o events]
         /\ UNCHANGED <<result, error>>
    ELSE /\ pc' = [pc EXCEPT ![c] = "chatting"]
         /\ trace' = [trace EXCEPT ![c] = trace[c] \o events \o
                <<ChatRequest(client, lm_name[c], message[c], options[c])>>]
         /\ UNCHANGED <<result, error>>

\* ollama.list() returns: model_names is the listing; a missing model is
\* pulled, otherwise _init_lm returns.
ListReturn(c) ==
    /\ pc[c] = "listing"
    /\ LET names == catalog
           ret == [ev |-> "return", op |-> "list", value |-> names]
       IN /\ model_names' = [model_names EXCEPT ![c] = names]
          /\ IF NeedsPull(lm_name[c], names)
             THEN /\ pc' = [pc EXCEPT ![c] = "pulling"]
                  /\ trace' = [trace EXCEPT ![c] =
                         trace[c] \o <<ret, PullRequest(lm_name[c])>>]
                  /\ UNCHANGED <<result, error>>
             ELSE AfterInitLm(c, <<ret>>)
    /\ UNCHANGED <<url, client, catalog, op, lm_name, message, options, disturbed>>

\* ollama.list() raises e: logged and re-raised by _list_pulled_models,
\* by _init_lm and by get_response.
ListRaise(c, e) ==
    /\ pc[c] = "listing"
    /\ Raise(c, Reraise(e), <<[ev |-> "raise", op |-> "list", error |-> e]>>)
    /\ UNCHANGED <<url, client, catalog, op, lm_name, message, options, disturbed>>

\* ollama.pull(lm_name) returns a ProgressResponse with the given status;
\* the backend has stored the model exactly when the status is success.
\* _pull_lm returns the response and _init_lm drops it.
PullReturn(c, status) ==
    /\ pc[c] = "pulling"
    /\ catalog' = IF status = "success" THEN catalog \cup {lm_name[c]} ELSE catalog
    /\ AfterInitLm(c, <<[ev |-> "return", op |-> "pull", value |-> status]>>)
    /\ UNCHANGED <<url, client, op, lm_name, message, options, model_names, disturbed>>

\* ollama.pull(lm_name) raises e: logged and re-raised.
PullRaise(c, e) ==
    /\ pc[c] = "pulling"
    /\ Raise(c, Reraise(e), <<[ev |-> "raise", op |-> "pull", error |-> e]>>)
    /\ UNCHANGED <<url, client, catalog, op, lm_name, message, options, disturbed>>

\* The responses self.client.chat can return: None, or a ChatResponse whose
\* message.content is a str or None.
NoResponse == [none |-> TRUE]
ChatResponses == {NoResponse} \cup
    {[message |-> [content |-> t]] : t \in ChatContents \cup {None}}

\* Fault: get_response itself rejects a response without content.
ResponseMissingOrNoContent(response) ==
    \/ response = NoResponse
    \/ response.message.content = None

\* `if response is None` in get_response
ResponseMissing(response) == response = NoResponse

\* The text get_response hands to _remove_think_tags.
ResponseContent(response) == response.message.content

\* Fault: the thinking context is kept (`content = response.message.content`).
GetResponseValueRaw(text) == text

\* `content = self._remove_think_tags(...)`; `return content`
GetResponseValue(text) == RemoveThinkTagsValue(text)

\* self.client.chat(...) returns response: None raises ValueError, else
\* the content goes through _remove_think_tags and is returned.
ChatReturn(c, response) ==
    /\ pc[c] = "chatting"
    /\ LET ret == [ev |-> "return", op |-> "chat", value |-> response]
       IN IF ResponseMissing(response)
          THEN Raise(c, Reraise(ValueErrorResponse), <<ret>>)
          ELSE LET text == ResponseContent(response)
                   clean == [ev |-> "call", op |-> "_remove_think_tags", text |-> text]
               IN IF RemoveThinkTagsRaises(text)
                  THEN Raise(c, Reraise(Reraise(ValueErrorCleaning)), <<ret, clean>>)
                  ELSE /\ pc' = [pc EXCEPT ![c] = "returned"]
                       /\ result' = [result EXCEPT ![c] = GetResponseValue(text)]
                       /\ trace' = [trace EXCEPT ![c] = trace[c] \o <<ret, clean>>]
                       /\ UNCHANGED <<error, model_names>>
    /\ UNCHANGED <<url, client, catalog, op, lm_name, message, options, disturbed>>

\* self.client.chat(...) raises e: logged and re-raised.
ChatRaise(c, e) ==
    /\ pc[c] = "chatting"
    /\ Raise(c, Reraise(e), <<[ev |-> "raise", op |-> "chat", error |-> e]>>)
    /\ UNCHANGED <<url, client, catalog, op, lm_name, message, options, disturbed>>

\* client._remove_think_tags(text), called directly.
RemoveThinkTagsCall(c, text) ==
    /\ ~InProgress(c)
    /\ op' = [op EXCEPT ![c] = "_remove_think_tags"]
    /\ lm_name' = [lm_name EXCEPT ![c] = DefaultLmName]
    /\ message' = [message EXCEPT ![c] = DefaultMessage]
    /\ options' = [options EXCEPT ![c] = NoOptions]
    /\ model_names' = [model_names EXCEPT ![c] = {}]
    /\ disturbed' = [disturbed EXCEPT ![c] = FALSE]
    /\ trace' = [trace EXCEPT ![c] =
           <<[ev |-> "call", op |-> "_remove_think_tags", text |-> text]>>]
    /\ IF RemoveThinkTagsRaises(text)
       THEN /\ pc' = [pc EXCEPT ![c] = "raised"]
            /\ error' = [error EXCEPT ![c] = Reraise(ValueErrorCleaning)]
            /\ result' = [result EXCEPT ![c] = None]
       ELSE /\ pc' = [pc EXCEPT ![c] = "returned"]
            /\ error' = [error EXCEPT ![c] = NoError]
            /\ result' = [result EXCEPT ![c] = RemoveThinkTagsValue(text)]
    /\ UNCHANGED <<url, client, catalog>>

(***************************************************************************)
(* Other users of the backend at DefaultHost pull and remove models;       *)
(* disturbed[c] records that they did since the current call of c began.   *)
(***************************************************************************)
Disturb == [c \in Callers |-> disturbed[c] \/ pc[c] # "idle"]

ExternalPull(m) ==
    /\ m \notin catalog
    /\ catalog' = catalog \cup {m}
    /\ disturbed' = Disturb
    /\ UNCHANGED <<url, client, pc, op, lm_name, message, options,
                   model_names, result, error, trace>>

ExternalRemove(m) ==
    /\ m \in catalog
    /\ catalog' = catalog \ {m}
    /\ disturbed' = Disturb
    /\ UNCHANGED <<url, client, pc, op, lm_name, message, options,
                   model_names, result, error, trace>>

(***************************************************************************)
(* History of the instance.  known and fetched are history variables: no   *)
(* action of the client reads them.  known holds the models that some call *)
(* on the instance found in its listing or pulled with success (what a     *)
(* cache of the check would hold); fetched holds the models that a call    *)
(* pulled with success and that nobody has removed since.                  *)
(***************************************************************************)
\* This step is the return of ollama.list() with the model of c listed.
FoundNow(c) == pc[c] = "listing" /\ pc'[c] \in {"returned", "chatting"}

\* This step is the return of ollama.pull() to c with status success.
PulledNow(c) ==
    /\ pc[c] = "pulling"
    /\ pc'[c] \in {"returned", "chatting"}
    /\ trace'[c][Len(trace[c]) + 1].value = "success"

History ==
    /\ known' = known \cup
           {lm_name[c] : c \in {d \in Callers : FoundNow(d) \/ PulledNow(d)}}
    /\ fetched' = (fetched \cup {lm_name[c] : c \in {d \in Callers : PulledNow(d)}})
                      \ (catalog \ catalog')

NoHistory == UNCHANGED <<known, fetched>>

(***************************************************************************)
(* Specifications.                                                         *)
(***************************************************************************)
Backend(c) ==
    \/ ListReturn(c)
    \/ \E e \in BackendErrors : ListRaise(c, e)
    \/ \E status \in PullStatuses : PullReturn(c, status)
    \/ \E e \in BackendErrors : PullRaise(c, e)
    \/ \E response \in ChatResponses : ChatReturn(c, response)
    \/ \E e \in BackendErrors : ChatRaise(c, e)

External ==
    \/ \E m \in Models : ExternalPull(m)
    \/ \E m \in Models : ExternalRemove(m)

\* One caller uses the instance, one call after the other.
Next ==
    \/ \E c \in SeqCallers, name \in Models : InitLmCall(c, name) /\ NoHistory
    \/ \E c \in SeqCallers, name \in Models, msg \in Messages, opts \in Options :
           GetResponseCall(c, name, msg, opts) /\ NoHistory
    \/ \E c \in SeqCallers : ListReturn(c) /\ NoHistory
    \/ \E c \in SeqCallers, e \in BackendErrors : ListRaise(c, e) /\ NoHistory
    \/ \E c \in SeqCallers, status \in PullStatuses :
           PullReturn(c, status) /\ NoHistory
    \/ \E c \in SeqCallers, e \in BackendErrors : PullRaise(c, e) /\ NoHistory
    \/ \E c \in SeqCallers, response \in ChatResponses :
           ChatReturn(c, response) /\ NoHistory
    \/ \E c \in SeqCallers, e \in BackendErrors : ChatRaise(c, e) /\ NoHistory
    \/ \E m \in Models : ExternalPull(m) /\ NoHistory
    \/ \E m \in Models : ExternalRemove(m) /\ NoHistory

Spec == Init /\ [][Next]_vars

\* The cleaner alone: one direct call on a new instance, for every text of
\* the bound.
NextClean ==
    \E c \in SeqCallers :
        /\ pc[c] = "idle"
        /\ \E text \in Texts \cup {None} : RemoveThinkTagsCall(c, text) /\ NoHistory

SpecClean == Init /\ [][NextClean]_vars

\* The state after OllamaClient() has been constructed with the default url,
\* facing an empty catalog.
InitDefault == Init /\ url = DefaultUrl /\ catalog = {}

\* The cleaner alone, on the texts with complete spans.
NextSpans ==
    \E c \in SeqCallers :
        /\ pc[c] = "idle"
        /\ \E text \in SpanTexts : RemoveThinkTagsCall(c, text) /\ NoHistory

SpecSpans == InitDefault /\ [][NextSpans]_vars

\* The chat responses of the specification with history: no response, no
\* content, and the texts of at most one piece.
HistoryResponses == {NoResponse} \cup
    {[message |-> [content |-> t]] : t \in TextsUpTo(1) \cup {None}}

\* One caller uses the instance, one call after the other, and the history
\* of the instance is recorded.
NextHistory ==
    \/ \E c \in SeqCallers, name \in Models : InitLmCall(c, name) /\ History
    \/ \E c \in SeqCallers, name \in Models, msg \in Messages, opts \in Options :
           GetResponseCall(c, name, msg, opts) /\ History
    \/ \E c \in SeqCallers : ListReturn(c) /\ History
    \/ \E c \in SeqCallers, e \in BackendErrors : ListRaise(c, e) /\ History
    \/ \E c \in SeqCallers, status \in PullStatuses :
           PullReturn(c, status) /\ History
    \/ \E c \in SeqCallers, e \in BackendErrors : PullRaise(c, e) /\ History
    \/ \E c \in SeqCallers, response \in HistoryResponses :
           ChatReturn(c, response) /\ History
    \/ \E c \in SeqCallers, e \in BackendErrors : ChatRaise(c, e) /\ History
    \/ \E m \in Models : ExternalPull(m) /\ History
    \/ \E m \in Models : ExternalRemove(m) /\ History

SpecHistory == Init /\ [][NextHistory]_vars

(***************************************************************************)
(* Properties.                                                             *)
(***************************************************************************)
IsValueError(e) == e \in {ValueErrorResponse, ValueErrorCleaning}

\* The call of c runs _init_lm (directly or inside get_response).
RunsInitLm(c) == op[c] \in {"_init_lm", "get_response"}

\* ollama.list() has returned in the call of c; model_names[c] is its listing.
Listed(c) == RunsInitLm(c) /\ Len(ReturnsOf(c, "list")) = 1

\* _init_lm has returned without raising in the call of c.
InitLmReturned(c) ==
    /\ Listed(c)
    /\ \/ lm_name[c] \in model_names[c]
       \/ Len(ReturnsOf(c, "pull")) = 1

\* The backend requests _init_lm has issued in the call of c.
InitLmRequests(c) ==
    SelectSeq(trace[c], LAMBDA e : e.ev = "call" /\ e.op \in {"list", "pull"})

\* All backend requests issued in the call of c.
BackendRequests(c) ==
    SelectSeq(trace[c], LAMBDA e : e.ev = "call" /\ e.op \in {"list", "pull", "chat"})

\* The chat response of the call of c has content None.
ChatReturnedNoContent(c) ==
    /\ op[c] = "get_response"
    /\ Len(ReturnsOf(c, "chat")) = 1
    /\ ReturnsOf(c, "chat")[1].value # NoResponse
    /\ ReturnsOf(c, "chat")[1].value.message.content = None

\* C1: when the requested model is in the listing that ollama.list()
\* returned, _init_lm issues no pull: the one listing is its only backend
\* request, and the only backend request of a direct _init_lm call.
C1_ListedModelNotPulled ==
    \A c \in Callers :
        (Listed(c) /\ lm_name[c] \in model_names[c]) =>
            /\ Len(CallsOf(c, "pull")) = 0
            /\ Len(InitLmRequests(c)) = 1
            /\ InitLmRequests(c)[1].op = "list"
            /\ (op[c] = "_init_lm" => Len(BackendRequests(c)) = 1)

C1_Witness ==
    \E c \in Callers :
        /\ op[c] = "_init_lm" /\ pc[c] = "returned"
        /\ Listed(c) /\ lm_name[c] \in model_names[c]
        /\ lm_name[c] # DefaultLmName

\* C2: when the requested model is absent from the listing, _init_lm issues
\* exactly one pull and that pull names exactly the requested model.
C2_AbsentModelPulledOnce ==
    \A c \in Callers :
        (Listed(c) /\ lm_name[c] \notin model_names[c]) =>
            /\ Len(CallsOf(c, "pull")) = 1
            /\ CallsOf(c, "pull")[1].model = lm_name[c]

C2_Witness ==
    \E c \in Callers :
        /\ op[c] = "_init_lm" /\ pc[c] = "returned"
        /\ Listed(c) /\ lm_name[c] \notin model_names[c]
        /\ lm_name[c] # DefaultLmName
        /\ Len(CallsOf(c, "pull")) = 1

\* C3: a get_response call for a model absent from the listing issues exactly
\* one pull; no chat request exists while the pull is outstanding, and every
\* chat request comes after the return of the pull.
C3_PullCompletesBeforeChat ==
    \A c \in Callers :
        (op[c] = "get_response" /\ Listed(c) /\ lm_name[c] \notin model_names[c]) =>
            /\ Len(CallsOf(c, "pull")) = 1
            /\ (pc[c] = "pulling" => Len(CallsOf(c, "chat")) = 0)
            /\ \A i \in 1..Len(trace[c]) :
                   (trace[c][i].ev = "call" /\ trace[c][i].op = "chat") =>
                       \E j \in 1..(i - 1) :
                           /\ trace[c][j].ev = "return" /\ trace[c][j].op = "pull"
                           /\ \E k \in 1..(j - 1) :
                                  trace[c][k].ev = "call" /\ trace[c][k].op = "pull"

C3_Witness ==
    \E c \in Callers :
        /\ op[c] = "get_response" /\ pc[c] = "returned"
        /\ Listed(c) /\ lm_name[c] \notin model_names[c]
        /\ Len(CallsOf(c, "pull")) = 1 /\ Len(CallsOf(c, "chat")) = 1

\* C4: the text returned by _remove_think_tags, called directly or by
\* get_response, contains neither '<think>' nor '</think>'.
C4_NoDelimiterInOutput ==
    \A c \in Callers :
        (op[c] \in {"_remove_think_tags", "get_response"} /\ pc[c] = "returned") =>
            /\ ~Contains(result[c], OpenTag)
            /\ ~Contains(result[c], CloseTag)

\* C5: when _init_lm returns without raising and nobody else changed the
\* catalog during the call, the requested model is in the catalog.
C5_ReturnedMeansPresent ==
    \A c \in Callers :
        (InitLmReturned(c) /\ ~disturbed[c]) => lm_name[c] \in catalog

\* C6: when the chat response has content None, get_response raises a
\* ValueError and returns no text.
C6_NoContentRaises ==
    \A c \in Callers :
        ChatReturnedNoContent(c) =>
            /\ pc[c] = "raised"
            /\ IsValueError(error[c])
            /\ result[c] = None

C6_Witness ==
    \E c \in Callers : ChatReturnedNoContent(c) /\ pc[c] = "raised"

C8_InitLmFailurePropagates ==
    \A c \in Callers :
        op[c] = "get_response" =>
            /\ Len(RaisesOf(c, "list")) = 1 =>
                   /\ pc[c] = "raised"
                   /\ error[c] = RaisesOf(c, "list")[1].error
                   /\ Len(CallsOf(c, "pull")) = 0
                   /\ Len(CallsOf(c, "chat")) = 0
                   /\ result[c] = None
            /\ Len(RaisesOf(c, "pull")) = 1 =>
                   /\ pc[c] = "raised"
                   /\ error[c] = RaisesOf(c, "pull")[1].error
                   /\ Len(CallsOf(c, "chat")) = 0
                   /\ result[c] = None

C8_Witness ==
    \E c \in Callers :
        /\ op[c] = "get_response" /\ pc[c] = "raised"
        /\ Len(RaisesOf(c, "pull")) = 1
        /\ error[c] = "ResponseError"

\* C9: the value get_response returns is _remove_think_tags applied to the
\* content of the chat response of the same call; a content without markers
\* and without surrounding whitespace is returned as it is.
C9_ReturnsCleanedContent ==
    \A c \in Callers :
        (op[c] = "get_response" /\ pc[c] = "returned") =>
            /\ Len(ReturnsOf(c, "chat")) = 1
            /\ LET content == ReturnsOf(c, "chat")[1].value.message.content
               IN /\ content # None
                  /\ result[c] = RemoveThinkTagsValue(content)
                  /\ (/\ ~Contains(content, OpenTag)
                      /\ ~Contains(content, CloseTag)
                      /\ (content # <<>> =>
                             /\ content[1] \notin Whitespace
                             /\ content[Len(content)] \notin Whitespace))
                         => result[c] = content

C9_Witness ==
    \E c \in Callers :
        /\ op[c] = "get_response" /\ pc[c] = "returned"
        /\ ReturnsOf(c, "chat")[1].value.message.content = OpenTag \o <<"a">>
        /\ result[c] = <<"a">>

\* C10: a get_response call whose _init_lm step has returned issues exactly
\* one chat request: its model is the requested model, its messages are one
\* message with role 'user' and the given message as content, and its
\* options are the options of the call (None by default); no get_response
\* call issues a chat request otherwise.
C10_OneChatRequest ==
    \A c \in Callers :
        op[c] = "get_response" =>
            IF InitLmReturned(c)
            THEN /\ Len(CallsOf(c, "chat")) = 1
                 /\ CallsOf(c, "chat")[1].model = lm_name[c]
                 /\ CallsOf(c, "chat")[1].messages =
                        <<[role |-> "user", content |-> message[c]]>>
                 /\ CallsOf(c, "chat")[1].options = options[c]
            ELSE Len(CallsOf(c, "chat")) = 0

C10_Witness ==
    \E c \in Callers :
        /\ op[c] = "get_response" /\ pc[c] = "chatting"
        /\ lm_name[c] # DefaultLmName
        /\ message[c] # DefaultMessage
        /\ options[c] # NoOptions
        /\ Len(CallsOf(c, "chat")) = 1

(***************************************************************************)
(* The cleaner: markers, spans and the text around them, by position.      *)
(***************************************************************************)
\* The call of c has run _remove_think_tags on a str and returned its value.
Cleaned(c) ==
    /\ op[c] \in {"_remove_think_tags", "get_response"}
    /\ pc[c] = "returned"
    /\ Len(CallsOf(c, "_remove_think_tags")) = 1

\* The text _remove_think_tags was given in the call of c.
CleanerInput(c) == CallsOf(c, "_remove_think_tags")[1].text

\* The markers of s from left to right: "O" for an open, "C" for a close.
RECURSIVE MarkerKinds(_, _)
MarkerKinds(s, i) ==
    IF i > Len(s) THEN <<>>
    ELSE IF TokenAt(s, i, OpenTag) THEN <<"O">> \o MarkerKinds(s, i + Len(OpenTag))
    ELSE IF TokenAt(s, i, CloseTag) THEN <<"C">> \o MarkerKinds(s, i + Len(CloseTag))
    ELSE MarkerKinds(s, i + 1)

\* The markers of s are n >= 1 pairs: open, close, open, close, ...
WellFormed(s) ==
    LET kinds == MarkerKinds(s, 1)
    IN /\ Len(kinds) > 0
       /\ Len(kinds) % 2 = 0
       /\ \A n \in 1..Len(kinds) : kinds[n] = IF n % 2 = 1 THEN "O" ELSE "C"

Opens(s) == {i \in 1..Len(s) : TokenAt(s, i, OpenTag)}
Closes(s) == {i \in 1..Len(s) : TokenAt(s, i, CloseTag)}

\* The index after the complete span that opens at o (from the open marker
\* to the nearest close marker after it), or 0 when no close marker follows.
SpanEnd(s, o) ==
    LET after == {j \in Closes(s) : j >= o + Len(OpenTag)}
    IN IF after = {} THEN 0
       ELSE (CHOOSE m \in after : \A n \in after : m <= n) + Len(CloseTag)

\* The positions of s inside a complete span, markers included.
InSpans(s) ==
    UNION {o..(SpanEnd(s, o) - 1) : o \in {p \in Opens(s) : SpanEnd(s, p) # 0}}

\* s without the positions in D.
RECURSIVE Without(_, _, _)
Without(s, D, i) ==
    IF i > Len(s) THEN <<>>
    ELSE (IF i \in D THEN <<>> ELSE <<s[i]>>) \o Without(s, D, i + 1)

\* The text of s outside its complete spans.
Outside(s) == Without(s, InSpans(s), 1)

\* a is b with some characters left out.
RECURSIVE IsSubseq(_, _, _, _)
IsSubseq(a, i, b, j) ==
    IF i > Len(a) THEN TRUE
    ELSE IF j > Len(b) THEN FALSE
    ELSE IF a[i] = b[j] THEN IsSubseq(a, i + 1, b, j + 1)
    ELSE IsSubseq(a, i, b, j + 1)

\* C11: for a well-formed text (its markers are n pairs, each open marker
\* matched by a close marker), the text _remove_think_tags returns contains
\* no marker and nothing of what lies between the markers of a pair: it is
\* made of characters of the text outside the pairs, in their order.
C11_WellFormedSpansRemoved ==
    \A c \in Callers :
        (Cleaned(c) /\ WellFormed(CleanerInput(c))) =>
            /\ ~Contains(result[c], OpenTag)
            /\ ~Contains(result[c], CloseTag)
            /\ IsSubseq(result[c], 1, Outside(CleanerInput(c)), 1)

\* t is s with its leading and trailing whitespace cut off and nothing else
\* changed: a slice of s that neither starts nor ends with whitespace and
\* leaves out only whitespace.
IsTrimOf(t, s) ==
    \E i \in 1..(Len(s) + 1) : \E j \in (i - 1)..Len(s) :
        /\ t = SubSeq(s, i, j)
        /\ \A k \in 1..(i - 1) : s[k] \in Whitespace
        /\ \A k \in (j + 1)..Len(s) : s[k] \in Whitespace
        /\ i <= j => (s[i] \notin Whitespace /\ s[j] \notin Whitespace)

\* C12: for a text that contains neither '<think>' nor '</think>',
\* _remove_think_tags returns the text with its leading and trailing
\* whitespace trimmed and nothing else changed.
C12_NoMarkerMeansTrim ==
    \A c \in Callers :
        (/\ Cleaned(c)
         /\ ~Contains(CleanerInput(c), OpenTag)
         /\ ~Contains(CleanerInput(c), CloseTag)) =>
            IsTrimOf(result[c], CleanerInput(c))

C12_Witness ==
    \E c \in Callers :
        /\ Cleaned(c) /\ op[c] = "_remove_think_tags"
        /\ CleanerInput(c) = <<" ", "a", "\n">>
        /\ result[c] = <<"a">>

\* C13: _remove_think_tags called with None raises a ValueError and returns
\* nothing; called with the empty string it raises nothing and returns the
\* empty string.
C13_NoneRejectedEmptyAccepted ==
    \A c \in Callers :
        (op[c] = "_remove_think_tags" /\ Finished(c)) =>
            /\ CleanerInput(c) = None =>
                   /\ pc[c] = "raised"
                   /\ IsValueError(error[c])
                   /\ result[c] = None
            /\ CleanerInput(c) = <<>> =>
                   /\ pc[c] = "returned"
                   /\ error[c] = NoError
                   /\ result[c] = <<>>

C13_Witness ==
    \E c \in Callers :
        /\ op[c] = "_remove_think_tags" /\ pc[c] = "raised"
        /\ CleanerInput(c) = None
        /\ error[c] = ValueErrorCleaning

\* The whitespace positions of s directly after a complete span (the \s* of
\* the pattern).
TrailingWhitespace(s) ==
    LET ends == {SpanEnd(s, o) : o \in Opens(s)} \ {0}
    IN UNION {e..(SkipWhitespace(s, e) - 1) : e \in ends}

\* What is left of s when its complete spans and the whitespace directly
\* after them are taken out.
Kept(s) == Without(s, InSpans(s) \cup TrailingWhitespace(s), 1)

\* The markers of s are n >= 2 pairs.
SeveralSpans(s) == WellFormed(s) /\ Len(MarkerKinds(s, 1)) >= 4

\* C14 as stated: when the text holds several independent complete spans,
\* each is removed from its open marker to the nearest close marker, and no
\* text between a close marker and the next open marker is removed, apart
\* from whitespace directly after a removed span: the result is the text
\* without its spans and their trailing whitespace, trimmed.
C14_TextBetweenSpansKept ==
    \A c \in Callers :
        (Cleaned(c) /\ SeveralSpans(CleanerInput(c))) =>
            result[c] = Strip(Kept(CleanerInput(c)))

\* C14 amended: the same, for the texts where what is left without the spans
\* and their trailing whitespace forms no marker of its own.
C14_TextBetweenSpansKeptUnlessJoined ==
    \A c \in Callers :
        (/\ Cleaned(c) /\ SeveralSpans(CleanerInput(c))
         /\ ~Contains(Kept(CleanerInput(c)), OpenTag)
         /\ ~Contains(Kept(CleanerInput(c)), CloseTag)) =>
            result[c] = Strip(Kept(CleanerInput(c)))

C14_Witness ==
    \E c \in Callers :
        /\ Cleaned(c)
        /\ CleanerInput(c) = Span \o <<"a", " ">> \o Span \o <<"a">>
        /\ result[c] = <<"a", " ", "a">>

\* The lone markers of s: the open markers with no close marker after them
\* and the close markers with no open marker before them.
LoneOpens(s) == {o \in Opens(s) : SpanEnd(s, o) = 0}
LoneCloses(s) ==
    {j \in Closes(s) : \A o \in Opens(s) : o + Len(OpenTag) > j}

\* The positions of s inside a lone marker.
InLoneMarkers(s) ==
    UNION ({o..(o + Len(OpenTag) - 1) : o \in LoneOpens(s)} \cup
           {j..(j + Len(CloseTag) - 1) : j \in LoneCloses(s)})

\* The text of s around its complete spans and its lone markers.
Surrounding(s) == Without(s, InSpans(s) \cup InLoneMarkers(s), 1)

\* s without its whitespace.
NonWhitespace(s) == SelectSeq(s, LAMBDA ch : ch \notin Whitespace)

\* C15 as stated: a lone marker is removed as a bare token only; all the
\* non-whitespace text around the lone markers and the complete spans of the
\* text is kept, in order.
C15_LoneMarkerRemovedAlone ==
    \A c \in Callers :
        (/\ Cleaned(c)
         /\ LoneOpens(CleanerInput(c)) \cup LoneCloses(CleanerInput(c)) # {}) =>
            NonWhitespace(result[c]) = NonWhitespace(Surrounding(CleanerInput(c)))

\* C15 amended: the same, for the texts where the lone markers are the only
\* markers in what is left once the complete spans are removed.
C15_LoneMarkerRemovedAloneUnlessJoined ==
    \A c \in Callers :
        (/\ Cleaned(c)
         /\ LoneOpens(CleanerInput(c)) \cup LoneCloses(CleanerInput(c)) # {}
         /\ Len(MarkerKinds(Kept(CleanerInput(c)), 1)) =
                Cardinality(LoneOpens(CleanerInput(c))) +
                Cardinality(LoneCloses(CleanerInput(c)))) =>
            NonWhitespace(result[c]) = NonWhitespace(Surrounding(CleanerInput(c)))

C15_Witness ==
    \E c \in Callers :
        /\ Cleaned(c)
        /\ CleanerInput(c) = <<"a">> \o Span \o <<"a">> \o OpenTag \o <<"a">>
        /\ result[c] = <<"a", "a", "a">>

\* cleaned_text: the text the first substitution hands to the second one.
CleanedText(text) == Strip(ThinkTagPatternSub(text, 1))

\* s holds a complete span: an open marker with a close marker after it.
HasCompleteSpan(s) == \E o \in Opens(s) : SpanEnd(s, o) # 0

\* C16: the first step of _remove_think_tags removes complete spans until
\* none remains: the text handed to the lone-marker step (cleaned_text)
\* holds no open marker followed later by a close marker, so that the
\* result is what removing leftmost complete spans to a fixpoint, removing
\* lone markers and trimming gives; in particular cleaning cleaned_text
\* once more gives the same result.
C16_SpansRemovedToFixpoint ==
    \A c \in Callers :
        Cleaned(c) =>
            /\ ~HasCompleteSpan(CleanedText(CleanerInput(c)))
            /\ result[c] = RemoveThinkTagsValue(CleanedText(CleanerInput(c)))

\* Event e of a trace is a failure of a backend operation: the operation
\* raised, or the fetch returned with a failure status.
IsFailure(e) ==
    \/ e.ev = "raise"
    \/ e.ev = "return" /\ e.op = "pull" /\ e.value = "error"

\* C17: a get_response call issues at most one listing, at most one pull and
\* at most one chat request, and the first failure of any of them ends the
\* call: the failure is the last event of the call, the call has raised,
\* and what it raised is the error of the failed operation.
C17_NoRetriesFirstFailureEnds ==
    \A c \in Callers :
        op[c] = "get_response" =>
            /\ Len(CallsOf(c, "list")) <= 1
            /\ Len(CallsOf(c, "pull")) <= 1
            /\ Len(CallsOf(c, "chat")) <= 1
            /\ \A i \in 1..Len(trace[c]) :
                   IsFailure(trace[c][i]) =>
                       /\ i = Len(trace[c])
                       /\ pc[c] = "raised"
                       /\ trace[c][i].ev = "raise" => error[c] = trace[c][i].error

\* C18: the availability check is never cached.  Every _init_lm and
\* get_response call begins with its own ollama.list() request, and what
\* the call does next depends on that listing alone: a model missing from
\* it is pulled, also when an earlier call on the instance found or pulled
\* the same model (so a model removed in between is pulled again).
C18_CheckNeverCached ==
    \A c \in Callers :
        RunsInitLm(c) =>
            /\ Len(CallsOf(c, "list")) = 1
            /\ trace[c][1] = ListRequest
            /\ (Listed(c) /\ lm_name[c] \notin ReturnsOf(c, "list")[1].value) =>
                   /\ Len(CallsOf(c, "pull")) = 1
                   /\ CallsOf(c, "pull")[1].model = lm_name[c]

C18_Witness ==
    \E c \in Callers :
        /\ RunsInitLm(c) /\ pc[c] = "pulling"
        /\ lm_name[c] \in known
        /\ lm_name[c] \notin model_names[c]
        /\ Len(CallsOf(c, "pull")) = 1

\* C19: once a call has pulled a model with success, no later _init_lm or
\* get_response call for that model issues a pull, as long as nobody removes
\* the model from the catalog: no pull is ever outstanding for a model that
\* was pulled and not removed since.
C19_NoSecondPull ==
    \A c \in Callers :
        (RunsInitLm(c) /\ lm_name[c] \in fetched) =>
            /\ pc[c] # "pulling"
            /\ (Listed(c) /\ lm_name[c] \in model_names[c]) =>
                   Len(CallsOf(c, "pull")) = 0

C19_Witness ==
    \E c \in Callers :
        /\ op[c] = "get_response" /\ pc[c] = "returned"
        /\ lm_name[c] \in fetched
        /\ Listed(c) /\ lm_name[c] \in model_names[c]
        /\ Len(CallsOf(c, "pull")) = 0

(***************************************************************************)
(* A call on a newly constructed instance, as a function of what the       *)
(* backend answers: the code of _init_lm and get_response, with no state   *)
(* of the instance but its url.                                            *)
(***************************************************************************)
\* The answers of the backend in the call of c, in order.
Answers(c) == SelectSeq(trace[c], LAMBDA e : e.ev \in {"return", "raise"})

FreshRaised(run, e, events) ==
    [pc |-> "raised", trace |-> run.trace \o events, result |-> None, error |-> e]

FreshAfterInitLm(run, a, u, o, name, msg, opts) ==
    IF o = "_init_lm"
    THEN [run EXCEPT !.pc = "returned", !.trace = run.trace \o <<a>>]
    ELSE [run EXCEPT !.pc = "chatting",
                     !.trace = run.trace \o <<a, ChatRequest(u, name, msg, opts)>>]

\* The call after the next answer a of the backend.
FreshStep(run, a, u, o, name, msg, opts) ==
    IF a.ev = "raise" THEN FreshRaised(run, a.error, <<a>>)
    ELSE IF run.pc = "listing"
    THEN IF name \notin a.value
         THEN [run EXCEPT !.pc = "pulling",
                          !.trace = run.trace \o <<a, PullRequest(name)>>]
         ELSE FreshAfterInitLm(run, a, u, o, name, msg, opts)
    ELSE IF run.pc = "pulling"
    THEN FreshAfterInitLm(run, a, u, o, name, msg, opts)
    ELSE IF a.value = NoResponse
    THEN FreshRaised(run, ValueErrorResponse, <<a>>)
    ELSE LET text == a.value.message.content
             clean == [ev |-> "call", op |-> "_remove_think_tags", text |-> text]
         IN IF text = None
            THEN FreshRaised(run, ValueErrorCleaning, <<a, clean>>)
            ELSE [run EXCEPT !.pc = "returned",
                             !.trace = run.trace \o <<a, clean>>,
                             !.result = RemoveThinkTagsValue(text)]

\* The call on a new instance with url u after the answers from index i on.
RECURSIVE FreshRun(_, _, _, _, _, _, _, _)
FreshRun(run, answers, i, u, o, name, msg, opts) ==
    IF i > Len(answers) THEN run
    ELSE FreshRun(FreshStep(run, answers[i], u, o, name, msg, opts),
                  answers, i + 1, u, o, name, msg, opts)

FreshStart ==
    [pc |-> "listing", trace |-> <<ListRequest>>, result |-> None, error |-> NoError]

\* The call of c is what the same call is on a new instance with the same
\* url that gets the same answers from the backend.
SameAsOnNewInstance(c) ==
    [pc |-> pc[c], trace |-> trace[c], result |-> result[c], error |-> error[c]] =
        FreshRun(FreshStart, Answers(c), 1, url, op[c], lm_name[c], message[c],
                 options[c])

\* C20: an instance can be reused.  No step changes url or client, and
\* after any sequence of calls a get_response call issues the requests and
\* has the outcome that the same call has on a new instance with the same
\* url that gets the same answers from the backend.
C20_InstanceReusable ==
    /\ [](\A c \in Callers : op[c] = "get_response" => SameAsOnNewInstance(c))
    /\ [][url' = url /\ client' = client]_vars

C20_Witness ==
    \E c \in Callers :
        /\ op[c] = "get_response" /\ pc[c] = "returned"
        /\ known = Models
        /\ Len(CallsOf(c, "pull")) = 1
        /\ SameAsOnNewInstance(c)

(***************************************************************************)
(* Construction: OllamaClient(url=u) runs __init__ and _init_client.       *)
(***************************************************************************)
\* No instance yet: self.url and self.client are not set.
NoUrl == "no url"
NoClient == "no client"

\* The two ValueErrors of _init_client.
ValueErrorMissingModels ==
    "ValueError: The response from client.list() is missing the 'models' attribute"
ValueErrorModelsNotList ==
    "ValueError: The 'models' attribute of client.list() should be a list"

\* What client.list() can return to the probe: a response whose models
\* attribute is a list, one without the attribute, one where it is no list.
ProbeResponses == {"models is a list", "no models", "models is not a list"}

\* Client(host=self.url)
ClientRequest(u) == [ev |-> "call", op |-> "Client", host |-> u]

\* client.list() on the new client
ProbeRequest(u) == [ev |-> "call", op |-> "list", host |-> u]

\* Fault: the response of the probe is not validated.
ProbeRejectedNever(response) == FALSE

\* `if not hasattr(response, 'models')`, `if not isinstance(response.models, list)`
ProbeRejected(response) == response # "models is a list"

ProbeError(response) ==
    IF response = "no models" THEN ValueErrorMissingModels ELSE ValueErrorModelsNotList

InitUnbuilt ==
    /\ url = NoUrl
    /\ client = NoClient
    /\ catalog \in SUBSET Models
    /\ pc = [c \in Callers |-> "idle"]
    /\ op = [c \in Callers |-> "none"]
    /\ lm_name = [c \in Callers |-> DefaultLmName]
    /\ message = [c \in Callers |-> DefaultMessage]
    /\ options = [c \in Callers |-> NoOptions]
    /\ model_names = [c \in Callers |-> {}]
    /\ result = [c \in Callers |-> None]
    /\ error = [c \in Callers |-> NoError]
    /\ trace = [c \in Callers |-> <<>>]
    /\ disturbed = [c \in Callers |-> FALSE]
    /\ known = {}
    /\ fetched = {}

\* OllamaClient(url=u): self.url = url, then _init_client creates the Client
\* and issues the probe.
Construct(c, u) ==
    /\ client = NoClient
    /\ pc[c] \in {"idle", "raised"}
    /\ url' = u
    /\ pc' = [pc EXCEPT ![c] = "probing"]
    /\ op' = [op EXCEPT ![c] = "__init__"]
    /\ error' = [error EXCEPT ![c] = NoError]
    /\ trace' = [trace EXCEPT ![c] = <<ClientRequest(u), ProbeRequest(u)>>]
    /\ UNCHANGED <<client, catalog, lm_name, message, options, model_names,
                   result, disturbed>>

\* The probe returns: a response without a list of models raises ValueError,
\* otherwise _init_client returns the client and __init__ stores it.
ProbeReturn(c, response) ==
    /\ pc[c] = "probing"
    /\ LET ret == [ev |-> "return", op |-> "list", value |-> response]
       IN IF ProbeRejected(response)
          THEN /\ Raise(c, Reraise(Reraise(ProbeError(response))), <<ret>>)
               /\ UNCHANGED client
          ELSE /\ client' = url
               /\ pc' = [pc EXCEPT ![c] = "returned"]
               /\ trace' = [trace EXCEPT ![c] = trace[c] \o <<ret>>]
               /\ UNCHANGED <<result, error, model_names>>
    /\ UNCHANGED <<url, catalog, op, lm_name, message, options, disturbed>>

\* The probe raises e: logged and re-raised by _init_client and __init__.
ProbeRaise(c, e) ==
    /\ pc[c] = "probing"
    /\ Raise(c, Reraise(Reraise(e)), <<[ev |-> "raise", op |-> "list", error |-> e]>>)
    /\ UNCHANGED <<url, client, catalog, op, lm_name, message, options, disturbed>>

\* Construction, and _init_lm calls on the instance once it exists.
NextConstruct ==
    \/ \E c \in SeqCallers, u \in Hosts : Construct(c, u) /\ NoHistory
    \/ \E c \in SeqCallers, response \in ProbeResponses :
           ProbeReturn(c, response) /\ NoHistory
    \/ \E c \in SeqCallers, e \in BackendErrors : ProbeRaise(c, e) /\ NoHistory
    \/ \E c \in SeqCallers, name \in Models :
           client # NoClient /\ InitLmCall(c, name) /\ NoHistory
    \/ \E c \in SeqCallers : ListReturn(c) /\ NoHistory
    \/ \E c \in SeqCallers, e \in BackendErrors : ListRaise(c, e) /\ NoHistory
    \/ \E c \in SeqCallers, status \in PullStatuses :
           PullReturn(c, status) /\ NoHistory
    \/ \E c \in SeqCallers, e \in BackendErrors : PullRaise(c, e) /\ NoHistory

SpecConstruct == InitUnbuilt /\ [][NextConstruct]_vars

\* C21: constructing the client with url U creates the backend client once,
\* with host U, stores U as self.url and probes the backend with one
\* listing on that client; when the probe raises, construction raises that
\* error, when its response has no list-valued models attribute,
\* construction raises a ValueError, and in both cases no instance exists;
\* otherwise the instance holds the client for U.
C21_ConstructionProbes ==
    /\ client # NoClient => client = url
    /\ \A c \in Callers :
        op[c] = "__init__" =>
            /\ CallsOf(c, "Client") = <<ClientRequest(url)>>
            /\ CallsOf(c, "list") = <<ProbeRequest(url)>>
            /\ url \in Hosts
            /\ pc[c] = "probing" => client = NoClient
            /\ Len(RaisesOf(c, "list")) = 1 =>
                   /\ pc[c] = "raised"
                   /\ error[c] = RaisesOf(c, "list")[1].error
                   /\ client = NoClient
            /\ Len(ReturnsOf(c, "list")) = 1 =>
                   IF ReturnsOf(c, "list")[1].value = "models is a list"
                   THEN pc[c] = "returned" /\ error[c] = NoError /\ client = url
                   ELSE /\ pc[c] = "raised"
                        /\ error[c] \in {ValueErrorMissingModels, ValueErrorModelsNotList}
                        /\ client = NoClient

C21_Witness ==
    \E c \in Callers :
        /\ op[c] = "__init__" /\ pc[c] = "raised"
        /\ url = OtherHost
        /\ ReturnsOf(c, "list")[1].value = "models is not a list"
        /\ client = NoClient

\* get_response has returned in the call of c; the content of its chat
\* response is a str.
GetResponseReturned(c) ==
    /\ op[c] = "get_response" /\ pc[c] = "returned"
    /\ Len(ReturnsOf(c, "chat")) = 1

\* The content of the chat response of the call of c.
ChatContent(c) == ReturnsOf(c, "chat")[1].value.message.content

\* C22 as stated: whenever get_response returns, the returned value is a
\* string of length greater than zero.
C22_ReturnedTextNotEmpty ==
    \A c \in Callers :
        GetResponseReturned(c) => (result[c] # None /\ Len(result[c]) > 0)

\* C22 amended: whenever get_response returns, the returned value is a
\* string, whatever the message and the model; it may be empty, and it is
\* empty whenever the content holds nothing but whitespace outside its
\* complete spans; a returned string that is not empty neither starts nor
\* ends with whitespace.
C22_ReturnedTextMayBeEmpty ==
    \A c \in Callers :
        GetResponseReturned(c) =>
            /\ result[c] # None
            /\ NonWhitespace(Outside(ChatContent(c))) = <<>> => result[c] = <<>>
            /\ result[c] # <<>> =>
                   /\ result[c][1] \notin Whitespace
                   /\ result[c][Len(result[c])] \notin Whitespace

C22_Witness ==
    \E c \in Callers :
        /\ GetResponseReturned(c)
        /\ message[c] = ""
        /\ ChatContent(c) = OpenTag \o CloseTag
        /\ result[c] = <<>>

\* C23: every backend operation of a get_response call on an instance
\* constructed with url U (the listing, the pull and the chat request) is
\* addressed to the backend at U.
C23_AllRequestsToUrl ==
    \A c \in Callers :
        op[c] = "get_response" =>
            \A i \in 1..Len(BackendRequests(c)) : BackendRequests(c)[i].host = url

(***************************************************************************)
(* Two callers use the instance at the same time: the steps of their calls *)
(* interleave at the backend requests.                                     *)
(***************************************************************************)
\* The chat responses of the concurrent specification.
ConcurrentResponses == {NoResponse, [message |-> [content |-> <<"a">>]]}

NextConcurrent ==
    \/ \E c \in Callers, name \in Models : InitLmCall(c, name) /\ NoHistory
    \/ \E c \in Callers, name \in Models :
           GetResponseCall(c, name, DefaultMessage, NoOptions) /\ NoHistory
    \/ \E c \in Callers : ListReturn(c) /\ NoHistory
    \/ \E c \in Callers, e \in BackendErrors : ListRaise(c, e) /\ NoHistory
    \/ \E c \in Callers, status \in PullStatuses :
           PullReturn(c, status) /\ NoHistory
    \/ \E c \in Callers, e \in BackendErrors : PullRaise(c, e) /\ NoHistory
    \/ \E c \in Callers, response \in ConcurrentResponses :
           ChatReturn(c, response) /\ NoHistory
    \/ \E c \in Callers, e \in BackendErrors : ChatRaise(c, e) /\ NoHistory

SpecConcurrent == InitDefault /\ [][NextConcurrent]_vars

\* C24: the membership check and the pull are not atomic.  Each call issues
\* at most one pull and decides on it by its own listing alone, whatever
\* the other call is doing; so two concurrent calls for the same absent
\* model can both find it absent and both pull it (the witness).
C24_PullDecidedByOwnListing ==
    \A c \in Callers :
        RunsInitLm(c) =>
            /\ Len(CallsOf(c, "pull")) <= 1
            /\ Listed(c) =>
                   (Len(CallsOf(c, "pull")) = 1 <=> lm_name[c] \notin model_names[c])
            /\ ~Listed(c) => Len(CallsOf(c, "pull")) = 0

\* Two pulls of the same model are outstanding at the same time.
C24_Witness ==
    \E c \in Callers : \E d \in Callers \ {c} :
        /\ pc[c] = "pulling" /\ pc[d] = "pulling"
        /\ lm_name[c] = lm_name[d]
        /\ lm_name[c] \notin model_names[c] /\ lm_name[d] \notin model_names[d]
        /\ Len(CallsOf(c, "pull")) = 1 /\ Len(CallsOf(d, "pull")) = 1

\* C25: _remove_think_tags is idempotent: cleaning the text it has returned
\* returns that text again.
C25_CleaningIsIdempotent ==
    \A c \in Callers :
        (Cleaned(c) /\ op[c] = "_remove_think_tags") =>
            RemoveThinkTagsValue(result[c]) = result[c]

\* r from index i on is k from index j on with some characters left out,
\* none of them whitespace.
RECURSIVE KeepsWhitespaceFrom(_, _, _, _)
KeepsWhitespaceFrom(r, i, k, j) ==
    IF i > Len(r) THEN TRUE
    ELSE IF j > Len(k) THEN FALSE
    ELSE \/ r[i] = k[j] /\ KeepsWhitespaceFrom(r, i + 1, k, j + 1)
         \/ k[j] \notin Whitespace /\ KeepsWhitespaceFrom(r, i, k, j + 1)

\* r is k with some characters that are no whitespace left out and the two
\* ends trimmed: between its first and its last character r has all the
\* whitespace of k.
TrimmedKeepingWhitespace(r, k) ==
    \/ r = <<>>
    \/ /\ r[1] \notin Whitespace
       /\ r[Len(r)] \notin Whitespace
       /\ \E j \in 1..Len(k) : k[j] = r[1] /\ KeepsWhitespaceFrom(r, 2, k, j + 1)

\* C26: the whitespace that _remove_think_tags removes is the whitespace
\* directly after a removed complete span and the whitespace at the two
\* ends of the result; the whitespace before a span, around a lone marker
\* and inside kept text stays as it is, and runs of whitespace inside the
\* result are not collapsed.
C26_WhitespaceKept ==
    \A c \in Callers :
        Cleaned(c) => TrimmedKeepingWhitespace(result[c], Kept(CleanerInput(c)))

C26_Witness ==
    \E c \in Callers :
        /\ Cleaned(c)
        /\ CleanerInput(c) = <<"a", " ">> \o Span \o <<" ", "a">>
        /\ result[c] = <<"a", " ", "a">>

\* C27: the client only ever adds to the catalog.  Every pull of a call
\* names the model of the call, and a step of the client changes the
\* catalog only when it is the return of a pull, of a call whose listing
\* lacked the model, and then by adding that model: nothing is removed, and
\* a call that found its model listed leaves the catalog as it is.
C27_ClientOnlyAdds ==
    /\ [](\A c \in Callers :
            RunsInitLm(c) =>
                \A i \in 1..Len(CallsOf(c, "pull")) :
                    CallsOf(c, "pull")[i].model = lm_name[c])
    /\ [][(pc' # pc /\ catalog' # catalog) =>
            \E c \in Callers :
                /\ pc[c] = "pulling" /\ pc'[c] # "pulling"
                /\ lm_name[c] \notin model_names[c]
                /\ catalog' = catalog \cup {lm_name[c]}]_vars

C27_Witness ==
    \E c \in Callers :
        /\ op[c] = "_init_lm" /\ pc[c] = "returned"
        /\ lm_name[c] = "gemma2:2b"
        /\ Len(ReturnsOf(c, "pull")) = 1
        /\ ReturnsOf(c, "pull")[1].value = "success"
        /\ catalog = {DefaultLmName, "gemma2:2b"}
        /\ model_names[c] = {DefaultLmName}

(***************************************************************************)
(* Progress: every backend request that is outstanding is answered (it     *)
(* returns or raises) at some time.                                        *)
(***************************************************************************)
\* The backend answers the outstanding request of c.
Answer(c) ==
    /\ \/ ListReturn(c)
       \/ \E e \in BackendErrors : ListRaise(c, e)
       \/ \E status \in PullStatuses : PullReturn(c, status)
       \/ \E e \in BackendErrors : PullRaise(c, e)
       \/ \E response \in ConcurrentResponses : ChatReturn(c, response)
       \/ \E e \in BackendErrors : ChatRaise(c, e)
    /\ NoHistory

NextLive ==
    \/ \E c \in SeqCallers, name \in Models, msg \in Messages, opts \in Options :
           GetResponseCall(c, name, msg, opts) /\ NoHistory
    \/ \E c \in SeqCallers : Answer(c)
    \/ \E m \in Models : ExternalPull(m) /\ NoHistory
    \/ \E m \in Models : ExternalRemove(m) /\ NoHistory

SpecLive ==
    /\ Init
    /\ [][NextLive]_vars
    /\ \A c \in SeqCallers : WF_vars(Answer(c))

\* C28: get_response has no loop: it issues at most three backend requests,
\* and when every backend request is answered, every get_response call
\* reaches a terminal outcome, which is either a returned text or a raised
\* error and never both.
C28_GetResponseTerminates ==
    /\ [](\A c \in Callers :
            op[c] = "get_response" =>
                /\ Len(BackendRequests(c)) <= 3
                /\ pc[c] = "returned" => (result[c] # None /\ error[c] = NoError)
                /\ pc[c] = "raised" => (result[c] = None /\ error[c] # NoError)
                /\ InProgress(c) => (result[c] = None /\ error[c] = NoError))
    /\ \A c \in SeqCallers :
           (op[c] = "get_response" /\ InProgress(c)) ~> Finished(c)

C28_Witness ==
    \E c \in Callers :
        /\ op[c] = "get_response" /\ pc[c] = "returned"
        /\ Len(BackendRequests(c)) = 3
        /\ result[c] = <<"a">>
        /\ options[c] # NoOptions
====
